---- MODULE Spec2Model ----
(***************************************************************************)
(* Model of the KPI query handler (api/query, revision                     *)
(* "2026-01-15_agg_logic_v5_full_filters_w_AO"): request gating, KPI       *)
(* registry lookup, SQL assembly, and the submit / poll protocol against   *)
(* the remote statement-execution service.                                 *)
(*                                                                         *)
(* Text is modelled as a sequence of tokens.  A fragment of the handler's  *)
(* own template is one token ("cal_yr_mo_nbr = "); a caller-supplied       *)
(* string is a sequence of one-character tokens, so that escaping,         *)
(* substring and quoting act on it character by character.                 *)
(***************************************************************************)
EXTENDS Integers, Sequences, FiniteSets, TLC

(* ---------------------------------------------------------------- bounds *)
\* longest filter value, in characters
MaxValLen == 2
\* longest filter list
MaxListLen == 2
\* longest time one remote call takes, in ms
MaxLatencyMs == 5000
\* status fetches of two concurrent requests together
MaxPairPolls == 2

(* ------------------------------------------------------ program constants *)
SleepMs == 350
TimeoutMs == 15000

\* JavaScript undefined / null, as they appear in a parsed body
Undef == "<undefined>"
Null == "<null>"

(* ------------------------------------------------------------------ text *)
\* characters a caller-supplied string is made of
FilterChars == {"a", "'"}
Digits == {"0", "1", "2", "3", "5", "6"}
CallerChars == FilterChars \cup Digits \cup {" ", "=", "O", "R"}

RECURSIVE StringsUpTo(_)
StringsUpTo(n) ==
  IF n = 0 THEN {<<>>}
  ELSE LET shorter == StringsUpTo(n - 1)
       IN  shorter \cup {Append(s, c) : s \in shorter, c \in FilterChars}

RECURSIVE ListsUpTo(_, _)
ListsUpTo(vals, n) ==
  IF n = 0 THEN {<<>>}
  ELSE LET shorter == ListsUpTo(vals, n - 1)
       IN  shorter \cup {Append(l, v) : l \in shorter, v \in vals}

\* mutant: replace without the g flag doubles the first quote only
ReplaceFirstQuote(s) ==
  IF \A i \in 1..Len(s) : s[i] # "'" THEN s
  ELSE LET first == CHOOSE i \in 1..Len(s) : s[i] = "'" /\ \A j \in 1..(i - 1) : s[j] # "'"
       IN  SubSeq(s, 1, first) \o <<"'">> \o SubSeq(s, first + 1, Len(s))

\* s.replace(/'/g, "''")
RECURSIVE ReplaceQuotes(_)
ReplaceQuotes(s) ==
  IF s = <<>> THEN <<>>
  ELSE (IF Head(s) = "'" THEN <<"'", "'">> ELSE <<Head(s)>>) \o ReplaceQuotes(Tail(s))

\* `'${s.replace(/'/g, "''")}'`
QuoteValue(s) == <<"'">> \o ReplaceQuotes(s) \o <<"'">>

\* Array.prototype.join over texts
RECURSIVE Join(_, _)
Join(texts, sep) ==
  IF texts = <<>> THEN <<>>
  ELSE IF Len(texts) = 1 THEN texts[1]
  ELSE texts[1] \o <<sep>> \o Join(Tail(texts), sep)

\* list.map(quote).join(",")
QuotedList(vals) == Join([i \in 1..Len(vals) |-> QuoteValue(vals[i])], ",")

\* String.prototype.substring(0, n)
Substring0(s, n) == SubSeq(s, 1, IF Len(s) < n THEN Len(s) ELSE n)

(* ---------------------------------------------------------- KPI registry *)
RegisteredKpis ==
  {"volume", "revenue", "displays", "share", "adshare", "pods", "taps", "avd"}

KPI_MAP ==
  [k \in RegisteredKpis |->
     CASE k = "volume"   -> [table |-> "mbmc_actuals_volume", col |-> "STRs",
                             hasChannel |-> TRUE, geoColumn |-> "WSLR_NBR", agg |-> "SUM"]
       [] k = "revenue"  -> [table |-> "mbmc_actuals_revenue", col |-> "net_rev",
                             hasChannel |-> FALSE, geoColumn |-> "WSLR_NBR", agg |-> "SUM"]
       [] k = "displays" -> [table |-> "mbmc_actuals_displays", col |-> "displays",
                             hasChannel |-> TRUE, geoColumn |-> "WSLR_NBR", agg |-> "SUM"]
       [] k = "share"    -> [table |-> "mbmc_actuals_bir", col |-> "shr",
                             hasChannel |-> TRUE, geoColumn |-> "WSLR_NBR", agg |-> "AVG"]
       [] k = "adshare"  -> [table |-> "mbmc_actuals_ads", col |-> "ad_share",
                             hasChannel |-> TRUE, geoColumn |-> "KAM", agg |-> "AVG"]
       [] k = "pods"     -> [table |-> "mbmc_actuals_distro", col |-> "pods",
                             hasChannel |-> TRUE, geoColumn |-> "WSLR_NBR", agg |-> "SUM"]
       [] k = "taps"     -> [table |-> "mbmc_actuals_distro", col |-> "taps",
                             hasChannel |-> TRUE, geoColumn |-> "WSLR_NBR", agg |-> "SUM"]
       [] k = "avd"      -> [table |-> "mbmc_actuals_distro", col |-> "avd",
                             hasChannel |-> TRUE, geoColumn |-> "WSLR_NBR", agg |-> "AVG"]]

\* KPI_MAP is an object literal, so KPI_MAP[k] also finds what every object
\* inherits from Object.prototype.
ObjectPrototypeKeys ==
  {"constructor", "toString", "valueOf", "hasOwnProperty", "__proto__"}

\* what reading .table, .col, .agg, .geoColumn, .hasChannel of an inherited
\* member yields: undefined, printed by a template literal as "undefined",
\* and falsy as a condition
InheritedMember ==
  [table |-> "undefined", col |-> "undefined", hasChannel |-> FALSE,
   geoColumn |-> "undefined", agg |-> "undefined"]

\* const config = KPI_MAP[kpi]; truthy |-> whether `!config` is false
LookupConfig(kpi) ==
  IF kpi \in RegisteredKpis THEN [truthy |-> TRUE, cfg |-> KPI_MAP[kpi]]
  ELSE IF kpi \in ObjectPrototypeKeys THEN [truthy |-> TRUE, cfg |-> InheritedMember]
  ELSE [truthy |-> FALSE, cfg |-> InheritedMember]

(* --------------------------------------------------------- request bodies *)
\* a caller-supplied string, character by character
Str(chars) == [t |-> "str", v |-> chars]
\* a caller-supplied JSON number, by its digits
Num(digits) == [t |-> "num", v |-> digits]
UndefVal == [t |-> "undef", v |-> <<>>]
NullVal == [t |-> "null", v |-> <<>>]

\* a filter list: absent, or an array of strings
NoList == [def |-> FALSE, vals |-> <<>>]
List(vals) == [def |-> TRUE, vals |-> vals]

\* body.filters: undefined, null, or an object
NoFilters ==
  [kind |-> "undef", include_ao |-> Undef, megabrand |-> NoList, region |-> NoList,
   state |-> NoList, wholesaler_id |-> NoList, channel |-> NoList]
NullFilters == [NoFilters EXCEPT !.kind = "null"]
Filters(ao, mb, rg, st, ws, ch) ==
  [kind |-> "obj", include_ao |-> ao, megabrand |-> mb, region |-> rg,
   state |-> st, wholesaler_id |-> ws, channel |-> ch]

Month202512 == <<"2", "0", "2", "5", "1", "2">>
Month202503 == <<"2", "0", "2", "5", "0", "3">>
Month202506 == <<"2", "0", "2", "5", "0", "6">>
Month202501 == <<"2", "0", "2", "5", "0", "1">>

(* ------------------------------------------------------- 3. filter logic *)
\* `${max_month}` : how a template literal prints the value
TemplateText(val) ==
  CASE val.t = "str"  -> val.v
    [] val.t = "num"  -> val.v
    [] val.t = "null" -> <<"null">>
    [] OTHER          -> <<"undefined">>

\* destructuring default: max_month = "202512" applies to undefined only
MaxMonthOrDefault(val) == IF val.t = "undef" THEN Str(Month202512) ELSE val

\* A. TIME SCOPE.  substring exists on strings only: on a number or null the
\* YTD branch throws a TypeError.
TimeScopeThrows(scope, max_month) ==
  scope # "MTD" /\ MaxMonthOrDefault(max_month).t # "str"

\* mutant: the year-to-date range starts at max_month itself, not at its year
TimeScopeWithoutSubstring(scope, max_month) ==
  LET mm == MaxMonthOrDefault(max_month)
  IN  IF scope = "MTD"
      THEN <<"cal_yr_mo_nbr = ">> \o TemplateText(mm)
      ELSE <<"cal_yr_mo_nbr BETWEEN ">> \o mm.v \o <<"01">>
             \o <<" AND ">> \o TemplateText(mm)

TimeScope(scope, max_month) ==
  LET mm == MaxMonthOrDefault(max_month)
  IN  IF scope = "MTD"
      THEN <<"cal_yr_mo_nbr = ">> \o TemplateText(mm)
      ELSE <<"cal_yr_mo_nbr BETWEEN ">> \o Substring0(mm.v, 4) \o <<"01">>
             \o <<" AND ">> \o TemplateText(mm)

\* mutant: every truthy include_ao lifts the exclusion
ExcludesAoUnlessTruthy(filters) ==
  ~(filters.kind = "obj" /\ filters.include_ao \in {"true", "'true'", "1"})

\* B. AO TOGGLE: filters?.include_ao !== true
ExcludesAo(filters) == ~(filters.kind = "obj" /\ filters.include_ao = "true")

\* mutant: the predicate is pushed for every list that is there, empty or not
InPredicateWithoutLengthCheck(col, list) ==
  IF list.def
  THEN << <<col, " IN (">> \o QuotedList(list.vals) \o <<")">> >>
  ELSE <<>>

\* C-F: `filters?.x && filters.x.length > 0` then `col IN (list)`
InPredicate(col, list) ==
  IF list.def /\ Len(list.vals) > 0
  THEN << <<col, " IN (">> \o QuotedList(list.vals) \o <<")">> >>
  ELSE <<>>

\* mutant: the channel filter is applied whether or not the KPI has a channel
ChannelPredicateForEveryKpi(list, cfg) ==
  IF list.def /\ Len(list.vals) > 0
  THEN << <<"channel", " IN (">> \o QuotedList(list.vals) \o <<")">> >>
  ELSE <<>>

\* G. CHANNEL
ChannelPredicate(list, cfg) ==
  IF list.def /\ Len(list.vals) > 0
  THEN IF cfg.hasChannel
       THEN << <<"channel", " IN (">> \o QuotedList(list.vals) \o <<")">> >>
       ELSE << <<"1=0">> >>
  ELSE <<>>

Conditions(fields, cfg) ==
  LET f == fields.filters
  IN  << <<"1=1">> >>
      \o << TimeScope(fields.scope, fields.max_month) >>
      \o (IF ExcludesAo(f) THEN << <<"megabrand != 'AO'">> >> ELSE <<>>)
      \o InPredicate("megabrand", f.megabrand)
      \o InPredicate("sls_regn_cd", f.region)
      \o InPredicate("mktng_st_cd", f.state)
      \o InPredicate("wslr_nbr", f.wholesaler_id)
      \o ChannelPredicate(f.channel, cfg)

(* --------------------------------------------------- 4. dynamic grouping *)
\* mutant: wholesaler groups by WSLR_NBR for every KPI
GroupingByWslrNbr(groupBy, cfg) ==
  CASE groupBy = "megabrand" ->
         [select |-> <<"megabrand", " as dimension">>,
          groupBy |-> <<"GROUP BY ", "megabrand">>, orderBy |-> <<"ORDER BY val_cy DESC">>]
    [] groupBy = "region" ->
         [select |-> <<"sls_regn_cd", " as dimension">>,
          groupBy |-> <<"GROUP BY ", "sls_regn_cd">>, orderBy |-> <<"ORDER BY val_cy DESC">>]
    [] groupBy = "state" ->
         [select |-> <<"mktng_st_cd", " as dimension">>,
          groupBy |-> <<"GROUP BY ", "mktng_st_cd">>, orderBy |-> <<"ORDER BY val_cy DESC">>]
    [] groupBy = "wholesaler" ->
         [select |-> <<"WSLR_NBR", " as dimension">>,
          groupBy |-> <<"GROUP BY ", "WSLR_NBR">>, orderBy |-> <<"ORDER BY val_cy DESC">>]
    [] groupBy = "channel" /\ ~cfg.hasChannel ->
         [select |-> <<"'All Channels'", " as dimension">>,
          groupBy |-> <<>>, orderBy |-> <<"ORDER BY val_cy DESC">>]
    [] groupBy = "channel" /\ cfg.hasChannel ->
         [select |-> <<"channel", " as dimension">>,
          groupBy |-> <<"GROUP BY ", "channel">>, orderBy |-> <<"ORDER BY val_cy DESC">>]
    [] groupBy = "total" ->
         [select |-> <<"'Total'", " as dimension">>,
          groupBy |-> <<>>, orderBy |-> <<>>]
    [] OTHER ->
         [select |-> <<"cal_yr_mo_nbr", " as dimension">>,
          groupBy |-> <<"GROUP BY ", "cal_yr_mo_nbr">>, orderBy |-> <<"ORDER BY cal_yr_mo_nbr ASC">>]

\* destructuring default groupBy = "time"; the switch's default arm is "time" too
Grouping(groupBy, cfg) ==
  CASE groupBy = "megabrand" ->
         [select |-> <<"megabrand", " as dimension">>,
          groupBy |-> <<"GROUP BY ", "megabrand">>, orderBy |-> <<"ORDER BY val_cy DESC">>]
    [] groupBy = "region" ->
         [select |-> <<"sls_regn_cd", " as dimension">>,
          groupBy |-> <<"GROUP BY ", "sls_regn_cd">>, orderBy |-> <<"ORDER BY val_cy DESC">>]
    [] groupBy = "state" ->
         [select |-> <<"mktng_st_cd", " as dimension">>,
          groupBy |-> <<"GROUP BY ", "mktng_st_cd">>, orderBy |-> <<"ORDER BY val_cy DESC">>]
    [] groupBy = "wholesaler" ->
         [select |-> <<cfg.geoColumn, " as dimension">>,
          groupBy |-> <<"GROUP BY ", cfg.geoColumn>>, orderBy |-> <<"ORDER BY val_cy DESC">>]
    [] groupBy = "channel" /\ ~cfg.hasChannel ->
         [select |-> <<"'All Channels'", " as dimension">>,
          groupBy |-> <<>>, orderBy |-> <<"ORDER BY val_cy DESC">>]
    [] groupBy = "channel" /\ cfg.hasChannel ->
         [select |-> <<"channel", " as dimension">>,
          groupBy |-> <<"GROUP BY ", "channel">>, orderBy |-> <<"ORDER BY val_cy DESC">>]
    [] groupBy = "total" ->
         [select |-> <<"'Total'", " as dimension">>,
          groupBy |-> <<>>, orderBy |-> <<>>]
    [] OTHER ->
         [select |-> <<"cal_yr_mo_nbr", " as dimension">>,
          groupBy |-> <<"GROUP BY ", "cal_yr_mo_nbr">>, orderBy |-> <<"ORDER BY cal_yr_mo_nbr ASC">>]

(* ------------------------------------------------------ 5. assemble SQL *)
\* mutant: the statement without its row cap
FinalSqlWithoutLimit(fields, cfg) ==
  LET g == Grouping(fields.groupBy, cfg)
  IN  <<"SELECT ">> \o g.select \o <<", ">>
      \o <<cfg.agg, "(", cfg.col, "_CY", ") as val_cy, ">>
      \o <<cfg.agg, "(", cfg.col, "_LY", ") as val_ly ">>
      \o <<"FROM ", "commercial_dev.capabilities.", cfg.table>>
      \o <<"\n", "WHERE ">> \o Join(Conditions(fields, cfg), " AND ")
      \o <<"\n">> \o g.groupBy \o <<"\n">> \o g.orderBy \o <<"\n">>

FinalSql(fields, cfg) ==
  LET g == Grouping(fields.groupBy, cfg)
  IN  <<"SELECT ">> \o g.select \o <<", ">>
      \o <<cfg.agg, "(", cfg.col, "_CY", ") as val_cy, ">>
      \o <<cfg.agg, "(", cfg.col, "_LY", ") as val_ly ">>
      \o <<"FROM ", "commercial_dev.capabilities.", cfg.table>>
      \o <<"\n", "WHERE ">> \o Join(Conditions(fields, cfg), " AND ")
      \o <<"\n">> \o g.groupBy \o <<"\n">> \o g.orderBy \o <<"\n", "LIMIT 1000">>

(* ------------------------------------------------------------- requests *)
ReqIds == {1, 2}

\* req.body as the platform hands it over: a string still to be parsed, or a
\* value.  fields is the object the JSON text or the value stands for.
\*   "str_bad"   a string that is not JSON        "str_empty" the empty string
\*   "str_null"  the string "null"                "str_obj"   a JSON object text
\*   "undef"     no body                          "obj"       an object
RawKinds == {"str_bad", "str_empty", "str_null", "str_obj", "undef", "obj"}

EmptyFields ==
  [ping |-> Undef, kpi |-> Undef, groupBy |-> Undef, scope |-> Undef,
   max_month |-> UndefVal, filters |-> NoFilters]

\* typeof req.body === "string" ? JSON.parse(req.body || "{}") : req.body
ParseBody(raw, fields) ==
  CASE raw = "str_bad"   -> [throws |-> TRUE,  isObj |-> FALSE, fields |-> EmptyFields]
    [] raw = "str_empty" -> [throws |-> FALSE, isObj |-> TRUE,  fields |-> EmptyFields]
    [] raw = "str_null"  -> [throws |-> FALSE, isObj |-> FALSE, fields |-> EmptyFields]
    [] raw = "undef"     -> [throws |-> FALSE, isObj |-> FALSE, fields |-> EmptyFields]
    [] OTHER             -> [throws |-> FALSE, isObj |-> TRUE,  fields |-> fields]

\* destructuring defaults of line 137 (undefined only; null stays null)
WithDefaults(fields) ==
  [fields EXCEPT !.groupBy = IF @ = Undef THEN "time" ELSE @,
                 !.scope = IF @ = Undef THEN "YTD" ELSE @]

\* process.env: which of the three credentials are set
CredentialsSet(e) == e.host /\ e.token /\ e.warehouseId

\* mutant: the credentials are checked before the ping
GateCredentialsFirst(rq, e) ==
  LET parsed == ParseBody(rq.raw, rq.fields)
      fields == WithDefaults(parsed.fields)
      config == LookupConfig(fields.kpi)
  IN  CASE rq.method = "OPTIONS" -> "options"
        [] rq.method = "GET" -> "get"
        [] rq.method # "POST" -> "method_not_allowed"
        [] parsed.throws -> "parse_throws"
        [] ~CredentialsSet(e) -> "missing_credentials"
        [] parsed.isObj /\ parsed.fields.ping = "true" -> "ping"
        [] ~parsed.isObj -> "destructure_throws"
        [] ~config.truthy -> "kpi_not_configured"
        [] TimeScopeThrows(fields.scope, fields.max_month) -> "compile_throws"
        [] OTHER -> "submit"

\* How far the synchronous part of the handler gets, from its first line to
\* the first await: the response it returns, or "submit" when it reaches the
\* fetch of line 265.
Gate(rq, e) ==
  LET parsed == ParseBody(rq.raw, rq.fields)
      fields == WithDefaults(parsed.fields)
      config == LookupConfig(fields.kpi)
  IN  CASE rq.method = "OPTIONS" -> "options"
        [] rq.method = "GET" -> "get"
        [] rq.method # "POST" -> "method_not_allowed"
        [] parsed.throws -> "parse_throws"
        [] parsed.isObj /\ parsed.fields.ping = "true" -> "ping"
        [] ~CredentialsSet(e) -> "missing_credentials"
        [] ~parsed.isObj -> "destructure_throws"
        [] ~config.truthy -> "kpi_not_configured"
        [] TimeScopeThrows(fields.scope, fields.max_month) -> "compile_throws"
        [] OTHER -> "submit"

\* the statement text the handler assembles for a request that reaches line 253
CompiledSql(rq) ==
  LET fields == WithDefaults(ParseBody(rq.raw, rq.fields).fields)
  IN  FinalSql(fields, LookupConfig(fields.kpi).cfg)

(* ------------------------------------------------------- remote service *)
TerminalStates == {"SUCCEEDED", "FAILED", "CANCELED"}
RemoteStates == {"PENDING", "RUNNING"} \cup TerminalStates

\* a parsed response body of the remote service: status.state (or undefined),
\* whether result is there, and statement_id (or undefined)
RemoteBody(st, res, id) == [state |-> st, result |-> res, statement_id |-> id]
NoBody == RemoteBody(Undef, FALSE, Undef)

StatementIdOf(r) == IF r = 1 THEN "stmt-1" ELSE "stmt-2"

PollBodies ==
  {RemoteBody(st, FALSE, Undef) : st \in RemoteStates \cup {Undef}}
    \cup {RemoteBody(st, TRUE, Undef) : st \in {"SUCCEEDED", "RUNNING"}}

SubmitBodies(r) ==
  {RemoteBody(st, FALSE, id) : st \in {"PENDING", "SUCCEEDED", "FAILED", "CANCELED", Undef},
                               id \in {StatementIdOf(r), Undef}}
    \cup {RemoteBody("SUCCEEDED", TRUE, id) : id \in {StatementIdOf(r), Undef}}

\* the JSON body of a rejected submit: a message, no status, result or statement_id
ErrorBody == RemoteBody(Undef, FALSE, Undef)

\* submitRes: the statuses a rejected submit carries (submitRes.ok is false),
\* and the accepted one
RejectStatuses == {400, 503}
SubmitRes(status) == [ok |-> status \notin RejectStatuses, status |-> status]
NoSubmitRes == [ok |-> FALSE, status |-> 0]
AcceptedRes == SubmitRes(200)

Latencies == {0, MaxLatencyMs}

(* ------------------------------------------------------------- responses *)
NoSql == <<>>
Response(status, kind, ok, st, res, sql) ==
  [status |-> status, kind |-> kind, ok |-> ok, state |-> st, result |-> res, sql |-> sql]
NoResponse == Response(0, "none", "none", Undef, "none", NoSql)

\* the handler's return statements
Preflight == Response(200, "end", "none", Undef, "none", NoSql)
Operational == Response(200, "operational", "true", Undef, "none", NoSql)
MethodNotAllowed == Response(405, "Method not allowed", "false", Undef, "none", NoSql)
PingReply == Response(200, "ping", "true", Undef, "none", NoSql)
MissingCredentials ==
  Response(500, "Server missing Databricks credentials", "false", Undef, "none", NoSql)
KpiNotConfigured == Response(400, "KPI is not configured in API map", "false", Undef, "none", NoSql)
SubmitFailed(status, sql) ==
  Response(status, "Databricks submit failed", "false", Undef, "none", sql)
\* mutant: the 502 body without its state field
TimedOutOrFailedNoState(body) ==
  Response(502, "Query timed out or failed", "false", Undef, "none", NoSql)
TimedOutOrFailed(body) ==
  Response(502, "Query timed out or failed", "false", body.state, "none", NoSql)
Success(body, sql) ==
  Response(200, "result", "true", Undef, IF body.result THEN "present" ELSE "absent", sql)
\* the catch block
InternalError == Response(500, "Internal Server Error", "false", Undef, "none", NoSql)

(* ---------------------------------------------------------------- state *)
VARIABLES
  active,       \* the requests being handled
  env,          \* process.env: which credentials are set
  req,          \* req[r]: method and body of request r
  pc,           \* pc[r]: where the handler of r stands
  now,          \* Date.now(), in ms
  finalSql,     \* finalSql[r]
  submitRes,    \* submitRes[r]: ok and status of the submit response, once there is one
  submitted,    \* submitted[r]: the parsed body of the submit response
  statementId,  \* statementId[r]
  deadlineMs,   \* deadlineMs[r]
  last,         \* last[r]: the last-known response body
  pollRes,      \* pollRes[r]: the body of the latest status response
  resp,         \* resp[r]: the response sent (the last one, if several)
  sent,         \* sent[r]: how many responses the handler has sent
  submits,      \* submits[r]: POSTs to /api/2.0/sql/statements
  polls,        \* polls[r]: GETs to /api/2.0/sql/statements/<id>
  fo            \* the filter-options handler: its request, locals, calls and response

vars ==
  <<active, env, req, pc, now, finalSql, submitRes, submitted, statementId, deadlineMs, last,
    pollRes, resp, sent, submits, polls, fo>>

Methods == {"OPTIONS", "GET", "POST", "PUT"}

AllCredentials == [host |-> TRUE, token |-> TRUE, warehouseId |-> TRUE]
Envs ==
  {AllCredentials, [AllCredentials EXCEPT !.host = FALSE],
   [AllCredentials EXCEPT !.token = FALSE], [AllCredentials EXCEPT !.warehouseId = FALSE]}

\* the filter-options handler when it is not invoked
FoIdle ==
  [rev |-> "none", method |-> "GET", raw |-> "undef", dimension |-> Undef, table |-> Undef,
   months |-> NoList, pc |-> "idle", sql |-> <<>>, submitOk |-> FALSE, state |-> Undef,
   result |-> FALSE, start |-> 0, submits |-> 0, polls |-> 0, status |-> 0, error |-> "none"]

IdleRequest == [method |-> "GET", raw |-> "undef", fields |-> EmptyFields]

\* request bodies of the protocol specification: every gate outcome, and a
\* few statements
QuoteFilters ==
  Filters(Undef, List(<< <<"a", "'">> >>), NoList, NoList, NoList, NoList)

ExecFields ==
  {[EmptyFields EXCEPT !.kpi = k, !.scope = sc, !.max_month = mm] :
     k \in {Undef, "volume", "Volume", "constructor"},
     sc \in {Undef, "MTD"}, mm \in {UndefVal, NullVal}}
    \cup {[EmptyFields EXCEPT !.kpi = "revenue", !.filters = QuoteFilters],
          [EmptyFields EXCEPT !.kpi = "volume", !.ping = "true"],
          [EmptyFields EXCEPT !.kpi = "Volume", !.ping = "true"],
          [EmptyFields EXCEPT !.kpi = "volume", !.ping = "'true'"]}

RequestsOver(fieldsSet) ==
  {[method |-> m, raw |-> "undef", fields |-> EmptyFields] : m \in Methods}
    \cup {[method |-> "POST", raw |-> k, fields |-> EmptyFields] :
            k \in {"str_bad", "str_empty", "str_null"}}
    \cup {[method |-> "POST", raw |-> "obj", fields |-> f] : f \in fieldsSet}
    \cup {[method |-> m, raw |-> "str_obj", fields |-> [EmptyFields EXCEPT !.kpi = "volume"]] :
            m \in Methods}

InitWith(ids, requests) ==
  /\ active = ids
  /\ env \in Envs
  /\ \E q \in [ids -> requests] :
       req = [r \in ReqIds |-> IF r \in ids THEN q[r] ELSE IdleRequest]
  /\ pc = [r \in ReqIds |-> IF r \in ids THEN "start" ELSE "idle"]
  /\ now = 0
  /\ finalSql = [r \in ReqIds |-> NoSql]
  /\ submitRes = [r \in ReqIds |-> NoSubmitRes]
  /\ statementId = [r \in ReqIds |-> Undef]
  /\ deadlineMs = [r \in ReqIds |-> 0]
  /\ last = [r \in ReqIds |-> NoBody]
  /\ pollRes = [r \in ReqIds |-> NoBody]
  /\ submitted = [r \in ReqIds |-> NoBody]
  /\ resp = [r \in ReqIds |-> NoResponse]
  /\ sent = [r \in ReqIds |-> 0]
  /\ submits = [r \in ReqIds |-> 0]
  /\ polls = [r \in ReqIds |-> 0]

Init == InitWith({1}, RequestsOver(ExecFields)) /\ fo = FoIdle

(* -------------------------------------------------------------- actions *)
\* mutant: a response that is not followed by return
RespondWithoutReturn(r, response) ==
  /\ resp' = [resp EXCEPT ![r] = response]
  /\ sent' = [sent EXCEPT ![r] = @ + 1]
  /\ pc' = pc

\* res.status(..).json(..) / .end(), followed by return
Respond(r, response) ==
  /\ resp' = [resp EXCEPT ![r] = response]
  /\ sent' = [sent EXCEPT ![r] = @ + 1]
  /\ pc' = [pc EXCEPT ![r] = "done"]

\* a return before any statement is assembled or any call made
ReturnEarly(r, response) ==
  /\ Respond(r, response)
  /\ UNCHANGED <<fo, active, env, req, pollRes, submitted, now, finalSql, submitRes,
                 statementId, deadlineMs, last, submits, polls>>

\* line 118
Options(r) ==
  /\ pc[r] = "start"
  /\ Gate(req[r], env) = "options"
  /\ ReturnEarly(r, Preflight)

\* line 124
Get(r) ==
  /\ pc[r] = "start"
  /\ Gate(req[r], env) = "get"
  /\ ReturnEarly(r, Operational)

\* line 125
RejectMethod(r) ==
  /\ pc[r] = "start"
  /\ Gate(req[r], env) = "method_not_allowed"
  /\ ReturnEarly(r, MethodNotAllowed)

\* line 127: JSON.parse throws, caught at line 295
BodyParseThrows(r) ==
  /\ pc[r] = "start"
  /\ Gate(req[r], env) = "parse_throws"
  /\ ReturnEarly(r, InternalError)

\* line 128
Ping(r) ==
  /\ pc[r] = "start"
  /\ Gate(req[r], env) = "ping"
  /\ ReturnEarly(r, PingReply)

\* line 135
RejectCredentials(r) ==
  /\ pc[r] = "start"
  /\ Gate(req[r], env) = "missing_credentials"
  /\ ReturnEarly(r, MissingCredentials)

\* line 137: destructuring null or undefined throws, caught at line 295
DestructureThrows(r) ==
  /\ pc[r] = "start"
  /\ Gate(req[r], env) = "destructure_throws"
  /\ ReturnEarly(r, InternalError)

\* line 141
RejectKpi(r) ==
  /\ pc[r] = "start"
  /\ Gate(req[r], env) = "kpi_not_configured"
  /\ ReturnEarly(r, KpiNotConfigured)

\* line 155: max_month.substring on a non-string throws, caught at line 295
CompileThrows(r) ==
  /\ pc[r] = "start"
  /\ Gate(req[r], env) = "compile_throws"
  /\ ReturnEarly(r, InternalError)

\* lines 143-269: assemble the statement and start the submit call
Submit(r) ==
  /\ pc[r] = "start"
  /\ Gate(req[r], env) = "submit"
  /\ finalSql' = [finalSql EXCEPT ![r] = CompiledSql(req[r])]
  /\ submits' = [submits EXCEPT ![r] = @ + 1]
  /\ pc' = [pc EXCEPT ![r] = "submit"]
  /\ UNCHANGED <<fo, active, env, req, pollRes, submitted, now, submitRes, statementId,
                 deadlineMs, last, resp, sent, polls>>

\* line 265: fetch rejects (no response at all); caught at line 295
SubmitFetchRejects(r) ==
  /\ pc[r] = "submit"
  /\ \E d \in Latencies : now' = now + d
  /\ Respond(r, InternalError)
  /\ UNCHANGED <<fo, active, env, req, pollRes, submitted, finalSql, submitRes, statementId,
                 deadlineMs, last, submits, polls>>

\* line 271: submitRes.json() throws on a body that is not JSON, whatever the
\* status; it runs before the status is looked at; caught at line 295
SubmitBodyUnparseable(r) ==
  /\ pc[r] = "submit"
  /\ \E d \in Latencies : now' = now + d
  /\ \E status \in RejectStatuses \cup {200} :
       submitRes' = [submitRes EXCEPT ![r] = SubmitRes(status)]
  /\ Respond(r, InternalError)
  /\ UNCHANGED <<fo, active, env, req, pollRes, submitted, finalSql, statementId, deadlineMs,
                 last, submits, polls>>

\* mutant: a rejected submit is tried again
SubmitRejectedRetries(r) ==
  /\ pc[r] = "submit"
  /\ \E d \in Latencies : now' = now + d
  /\ \E status \in RejectStatuses :
       submitRes' = [submitRes EXCEPT ![r] = SubmitRes(status)]
  /\ pc' = [pc EXCEPT ![r] = "start"]
  /\ UNCHANGED <<fo, active, env, req, pollRes, submitted, finalSql, statementId, deadlineMs,
                 last, resp, sent, submits, polls>>

\* line 272: !submitRes.ok, with a JSON body
SubmitRejected(r) ==
  /\ pc[r] = "submit"
  /\ \E d \in Latencies : now' = now + d
  /\ \E status \in RejectStatuses :
       /\ submitRes' = [submitRes EXCEPT ![r] = SubmitRes(status)]
       /\ Respond(r, SubmitFailed(submitRes'[r].status, finalSql[r]))
  /\ submitted' = [submitted EXCEPT ![r] = ErrorBody]
  /\ UNCHANGED <<fo, active, env, req, pollRes, finalSql, statementId, deadlineMs, last,
                 submits, polls>>

\* mutant: a terminal state is answered even without statement_id
SubmitNoStatementIdButTerminal(r) ==
  /\ pc[r] = "submit"
  /\ \E d \in Latencies : now' = now + d
  /\ \E body \in SubmitBodies(r) :
       /\ body.statement_id = Undef
       /\ submitted' = [submitted EXCEPT ![r] = body]
       /\ Respond(r, IF body.state = "SUCCEEDED" THEN Success(body, finalSql[r])
                     ELSE IF body.state \in TerminalStates THEN TimedOutOrFailed(body)
                     ELSE InternalError)
  /\ submitRes' = [submitRes EXCEPT ![r] = AcceptedRes]
  /\ UNCHANGED <<fo, active, env, req, pollRes, finalSql, statementId, deadlineMs, last,
                 submits, polls>>

\* lines 274-275: a 2xx response without statement_id; the throw is caught at line 295
SubmitNoStatementId(r) ==
  /\ pc[r] = "submit"
  /\ \E d \in Latencies : now' = now + d
  /\ \E body \in SubmitBodies(r) :
       /\ body.statement_id = Undef
       /\ submitted' = [submitted EXCEPT ![r] = body]
  /\ submitRes' = [submitRes EXCEPT ![r] = AcceptedRes]
  /\ Respond(r, InternalError)
  /\ UNCHANGED <<fo, active, env, req, pollRes, finalSql, statementId, deadlineMs, last,
                 submits, polls>>

\* mutant: the deadline is kept in one place for all requests
SubmitAcceptedSharedDeadline(r) ==
  /\ pc[r] = "submit"
  /\ \E d \in Latencies, body \in SubmitBodies(r) :
       /\ body.statement_id # Undef
       /\ now' = now + d
       /\ submitted' = [submitted EXCEPT ![r] = body]
       /\ statementId' = [statementId EXCEPT ![r] = submitted'[r].statement_id]
       /\ deadlineMs' = [q \in ReqIds |-> now' + TimeoutMs]
       /\ last' = [last EXCEPT ![r] = submitted'[r]]
  /\ submitRes' = [submitRes EXCEPT ![r] = AcceptedRes]
  /\ pc' = [pc EXCEPT ![r] = "loop"]
  /\ UNCHANGED <<fo, active, env, req, pollRes, finalSql, resp, sent, submits, polls>>

\* lines 274-278: a 2xx response with statement_id
SubmitAccepted(r) ==
  /\ pc[r] = "submit"
  /\ \E d \in Latencies, body \in SubmitBodies(r) :
       /\ body.statement_id # Undef
       /\ now' = now + d
       /\ submitted' = [submitted EXCEPT ![r] = body]
       /\ statementId' = [statementId EXCEPT ![r] = submitted'[r].statement_id]
       /\ deadlineMs' = [deadlineMs EXCEPT ![r] = now' + TimeoutMs]
       /\ last' = [last EXCEPT ![r] = submitted'[r]]
  /\ submitRes' = [submitRes EXCEPT ![r] = AcceptedRes]
  /\ pc' = [pc EXCEPT ![r] = "loop"]
  /\ UNCHANGED <<fo, active, env, req, pollRes, finalSql, resp, sent, submits, polls>>

\* mutant: a terminal check that leaves CANCELED out
IsTerminalWithoutCanceled(state) == state \in {"SUCCEEDED", "FAILED"}

\* line 282: ["SUCCEEDED", "FAILED", "CANCELED"].includes(state)
IsTerminal(state) == state \in TerminalStates

\* mutant: a loop that checks the state only, not the clock
LoopGoesOnWithoutDeadline(r) == ~IsTerminal(last[r].state)

\* line 280 and line 282: whether the loop body runs on to the sleep
LoopGoesOn(r) == now < deadlineMs[r] /\ ~IsTerminal(last[r].state)

\* lines 280-283: the loop check passes and the handler sleeps
LoopSleep(r) ==
  /\ pc[r] = "loop"
  /\ LoopGoesOn(r)
  /\ pc' = [pc EXCEPT ![r] = "sleep"]
  /\ UNCHANGED <<fo, active, env, req, pollRes, submitted, now, finalSql, submitRes,
                 statementId, deadlineMs, last, resp, sent, submits, polls>>

\* mutant: everything but FAILED counts as success
IsSucceededUnlessFailed(body) == body.state # "FAILED"

\* line 291: last?.status?.state !== "SUCCEEDED"
IsSucceeded(body) == body.state = "SUCCEEDED"

\* mutant: the failure response reports the state of the submit response
LoopEndsFailedWithSubmitState(r) ==
  /\ pc[r] = "loop"
  /\ ~LoopGoesOn(r)
  /\ ~IsSucceeded(last[r])
  /\ Respond(r, TimedOutOrFailed(submitted[r]))
  /\ UNCHANGED <<fo, active, env, req, pollRes, submitted, now, finalSql, submitRes,
                 statementId, deadlineMs, last, submits, polls>>

\* lines 280-291: the loop ends and the last state is not SUCCEEDED
LoopEndsFailed(r) ==
  /\ pc[r] = "loop"
  /\ ~LoopGoesOn(r)
  /\ ~IsSucceeded(last[r])
  /\ Respond(r, TimedOutOrFailed(last[r]))
  /\ UNCHANGED <<fo, active, env, req, pollRes, submitted, now, finalSql, submitRes,
                 statementId, deadlineMs, last, submits, polls>>

\* lines 280-293: the loop ends and the last state is SUCCEEDED
LoopEndsSucceeded(r) ==
  /\ pc[r] = "loop"
  /\ ~LoopGoesOn(r)
  /\ IsSucceeded(last[r])
  /\ Respond(r, Success(last[r], finalSql[r]))
  /\ UNCHANGED <<fo, active, env, req, pollRes, submitted, now, finalSql, submitRes,
                 statementId, deadlineMs, last, submits, polls>>

\* lines 283-287: the sleep is over; start the status fetch
Poll(r) ==
  /\ pc[r] = "sleep"
  /\ now' = now + SleepMs
  /\ polls' = [polls EXCEPT ![r] = @ + 1]
  /\ pc' = [pc EXCEPT ![r] = "poll"]
  /\ UNCHANGED <<fo, active, env, req, pollRes, submitted, finalSql, submitRes, statementId,
                 deadlineMs, last, resp, sent, submits>>

\* mutant: a status response without a state leaves the last-known status
PollReturnsKeepingKnownState(r) ==
  /\ pc[r] = "poll"
  /\ \E d \in Latencies, body \in PollBodies :
       /\ now' = now + d
       /\ pollRes' = [pollRes EXCEPT ![r] = body]
  /\ last' = [last EXCEPT ![r] = IF pollRes'[r].state = Undef THEN @ ELSE pollRes'[r]]
  /\ pc' = [pc EXCEPT ![r] = "loop"]
  /\ UNCHANGED <<fo, active, env, req, finalSql, submitRes, submitted, statementId, deadlineMs,
                 resp, sent, submits, polls>>

\* line 288: the status fetch answers; pollRes.ok is not looked at
PollReturns(r) ==
  /\ pc[r] = "poll"
  /\ \E d \in Latencies, body \in PollBodies :
       /\ now' = now + d
       /\ pollRes' = [pollRes EXCEPT ![r] = body]
  /\ last' = [last EXCEPT ![r] = pollRes'[r]]
  /\ pc' = [pc EXCEPT ![r] = "loop"]
  /\ UNCHANGED <<fo, active, env, req, finalSql, submitRes, submitted, statementId, deadlineMs,
                 resp, sent, submits, polls>>

\* lines 284-288: fetch rejects, or pollRes.json() throws; caught at line 295
PollThrows(r) ==
  /\ pc[r] = "poll"
  /\ \E d \in Latencies : now' = now + d
  /\ Respond(r, InternalError)
  /\ UNCHANGED <<fo, active, env, req, pollRes, submitted, finalSql, submitRes, statementId,
                 deadlineMs, last, submits, polls>>

\* the synchronous part of the handler, up to the submit call
Gating(r) ==
  \/ Options(r)
  \/ Get(r)
  \/ RejectMethod(r)
  \/ BodyParseThrows(r)
  \/ Ping(r)
  \/ RejectCredentials(r)
  \/ DestructureThrows(r)
  \/ RejectKpi(r)
  \/ CompileThrows(r)
  \/ Submit(r)

\* the answers of the remote service and what the handler does with them
Executing(r) ==
  \/ SubmitFetchRejects(r)
  \/ SubmitBodyUnparseable(r)
  \/ SubmitRejected(r)
  \/ SubmitNoStatementId(r)
  \/ SubmitAccepted(r)
  \/ LoopSleep(r)
  \/ LoopEndsFailed(r)
  \/ LoopEndsSucceeded(r)
  \/ Poll(r)
  \/ PollReturns(r)
  \/ PollThrows(r)

\* a request that is not being handled stands at "idle", where no action is enabled
Next == \E r \in ReqIds : Gating(r) \/ Executing(r)

Spec == Init /\ [][Next]_vars

\* The runtime resumes the handler whenever what it awaits has settled, the
\* sleep timer fires, and every fetch settles (it answers or it rejects).
SpecFair == Spec /\ WF_vars(Next)

(* ------------------------------------------------ two requests at once *)
\* Two invocations of the handler, their awaits interleaved.  Their request
\* bodies cover every return of the synchronous part; the status fetches of
\* the two together are capped.
PairRequestFields ==
  {[EmptyFields EXCEPT !.kpi = "volume"],
   [EmptyFields EXCEPT !.kpi = "revenue", !.max_month = NullVal],
   [EmptyFields EXCEPT !.kpi = "Volume"],
   [EmptyFields EXCEPT !.kpi = "volume", !.ping = "true"]}

PairRequests ==
  {[method |-> m, raw |-> "undef", fields |-> EmptyFields] : m \in Methods}
    \cup {[method |-> "POST", raw |-> "str_bad", fields |-> EmptyFields]}
    \cup {[method |-> "POST", raw |-> "obj", fields |-> f] : f \in PairRequestFields}

InitPair == InitWith({1, 2}, PairRequests) /\ fo = FoIdle

PollsStarted == polls[1] + polls[2]

\* lines 283-287, as long as the cap allows another status fetch
PollWithinCap(r) ==
  /\ PollsStarted < MaxPairPolls
  /\ Poll(r)

NextPair ==
  \E r \in ReqIds :
    \/ Gating(r)
    \/ SubmitFetchRejects(r)
    \/ SubmitBodyUnparseable(r)
    \/ SubmitRejected(r)
    \/ SubmitNoStatementId(r)
    \/ SubmitAccepted(r)
    \/ LoopSleep(r)
    \/ LoopEndsFailed(r)
    \/ LoopEndsSucceeded(r)
    \/ PollWithinCap(r)
    \/ PollReturns(r)
    \/ PollThrows(r)

SpecPair == InitPair /\ [][NextPair]_vars

(* ------------------------------------------- the statement compiler alone *)
\* request bodies of the compiler specification
FilterValues == StringsUpTo(MaxValLen)
FilterLists == {NoList} \cup {List(l) : l \in ListsUpTo(FilterValues, MaxListLen)}

\* a max_month that is no year-month token
MonthInjection == <<"0", " ", "O", "R", " ", "1", "=", "1">>
MonthValues ==
  {UndefVal, NullVal, Str(Month202503), Str(MonthInjection), Str(<<"2", "0", "2", "5">>),
   Str(<<>>), Str(<<"'", "a">>), Num(Month202503)}

OneValue(c) == List(<< <<c>> >>)

SqlFields ==
  \* every KPI under every grouping
  {[EmptyFields EXCEPT !.kpi = k, !.groupBy = g, !.scope = sc] :
     k \in RegisteredKpis \cup {"constructor", "Volume", Undef},
     g \in {Undef, Null, "time", "megabrand", "region", "state", "wholesaler", "channel",
            "total", "week"},
     sc \in {Undef, "MTD"}}
  \* every time scope over every max_month
  \cup {[EmptyFields EXCEPT !.kpi = "volume", !.scope = sc, !.max_month = mm] :
          sc \in {Undef, Null, "MTD", "YTD", "QTD"}, mm \in MonthValues}
  \* every include_ao, and every pattern of filters present
  \cup {[EmptyFields EXCEPT !.kpi = k, !.filters = Filters(ao, mb, rg, st, ws, ch)] :
          k \in {"volume", "revenue"},
          ao \in {Undef, "true", "false", "'true'", "1"},
          mb \in {NoList, OneValue("a")}, rg \in {NoList, List(<<>>), OneValue("a")},
          st \in {NoList, OneValue("'")}, ws \in {NoList, OneValue("a")},
          ch \in {NoList, List(<<>>), OneValue("a")}}
  \* every list of values, as a megabrand and as a channel filter
  \cup {[EmptyFields EXCEPT !.kpi = k, !.groupBy = g,
                            !.filters = Filters(Undef, l, NoList, NoList, NoList, NoList)] :
          k \in {"volume"}, g \in {Undef}, l \in FilterLists}
  \cup {[EmptyFields EXCEPT !.kpi = k, !.groupBy = g,
                            !.filters = Filters(Undef, NoList, NoList, NoList, NoList, l)] :
          k \in {"volume", "revenue"}, g \in {Undef, "channel"}, l \in FilterLists}
  \cup {[EmptyFields EXCEPT !.kpi = "volume", !.filters = NullFilters]}
  \* the two end-to-end scenarios
  \cup {[EmptyFields EXCEPT !.kpi = "volume", !.groupBy = "megabrand", !.scope = "YTD",
                            !.max_month = Str(Month202506)],
        [EmptyFields EXCEPT !.kpi = "share", !.groupBy = "total", !.scope = "MTD",
                            !.max_month = Str(Month202501)]}
  \cup {[EmptyFields EXCEPT !.kpi = "volume", !.ping = p] : p \in {"true", "'true'"}}

\* two requests handled side by side
PairFields ==
  {[EmptyFields EXCEPT !.kpi = "volume"],
   [EmptyFields EXCEPT !.kpi = "volume",
                       !.filters = Filters("true", OneValue("a"), NoList, NoList, NoList,
                                           OneValue("'"))],
   [EmptyFields EXCEPT !.kpi = "revenue", !.groupBy = "channel", !.scope = "MTD",
                       !.max_month = Str(Month202503)]}

InitSql ==
  /\ \/ InitWith({1}, RequestsOver(SqlFields))
     \/ InitWith({1, 2}, RequestsOver(PairFields))
  /\ fo = FoIdle

NextSql == \E r \in ReqIds : Gating(r)

\* the handler from its first line to the submit call, over the compiler's inputs
SpecSql == InitSql /\ [][NextSql]_vars

(* ------------------------------------------- the filter-options handler *)
\* Two revisions of one handler: "first" (allowlist, poll loop) and "months"
\* (adds the months filter, polls once).  The variable fo holds the
\* invocation; the KPI query handler is not invoked meanwhile.
kpiVars ==
  <<active, env, req, pc, finalSql, submitRes, submitted, statementId, deadlineMs, last,
    pollRes, resp, sent, submits, polls>>

FoSleepMs == 200
FoTimeoutMs == 10000
FoWaitMs == 2000

\* const ALLOWED_COLS, ALLOWED_TABLES
ALLOWED_COLS(rev) ==
  IF rev = "first" THEN {"wslr_nbr", "mktng_st_cd", "sls_regn_cd", "channel"}
  ELSE {"wslr_nbr", "mktng_st_cd", "sls_regn_cd", "channel", "megabrand"}
ALLOWED_TABLES == {"mbmc_actuals_volume", "mbmc_actuals_revenue", "mbmc_actuals_distro"}

\* /^\d+$/.test(m)
IsDigits(m) == Len(m) > 0 /\ \A i \in 1..Len(m) : m[i] \in Digits

\* months.filter(m => /^\d+$/.test(m))
safeMonths(months) == SelectSeq(months, IsDigits)

\* let dateFilter: months && Array.isArray(months) && months.length > 0, then
\* the safe ones as `'${m}'` joined by ","
dateFilter(months) ==
  IF months.def /\ Len(months.vals) > 0 /\ Len(safeMonths(months.vals)) > 0
  THEN LET safe == safeMonths(months.vals)
       IN  <<"AND month IN (">>
             \o Join([i \in 1..Len(safe) |-> <<"'">> \o safe[i] \o <<"'">>], ",")
             \o <<")">>
  ELSE <<>>

\* const sql of either revision
FoSql(rev, dimension, table, months) ==
  IF rev = "first"
  THEN <<"SELECT DISTINCT ", dimension, " as label ", "FROM commercial_dev.capabilities.",
         table, " WHERE ", dimension, " IS NOT NULL ", "ORDER BY ", dimension, " ASC ",
         "LIMIT 2000">>
  ELSE <<"SELECT DISTINCT ", dimension, " as label ", "FROM commercial_dev.capabilities.",
         table, " WHERE ", dimension, " IS NOT NULL ">>
         \o dateFilter(months) \o <<" ORDER BY label ASC ", "LIMIT 2000">>

\* How far the handler gets before its first await.  The months revision
\* turns a falsy body into {}; the first revision destructures req.body as it
\* is, and neither survives a body that is null or no JSON.
FoGate(f) ==
  CASE f.method = "OPTIONS" -> "options"
    [] f.rev = "months" /\ f.method # "POST" -> "method_not_allowed"
    [] f.raw \in {"str_bad", "str_null"} -> "throws"
    [] f.raw = "undef" /\ f.rev = "first" -> "throws"
    [] f.rev = "months" /\ (f.raw = "undef" \/ f.dimension = Undef \/ f.table = Undef) ->
         "missing"
    [] f.dimension \notin ALLOWED_COLS(f.rev) \/ f.table \notin ALLOWED_TABLES -> "invalid"
    [] OTHER -> "submit"

\* res.status(..).json(..) followed by return
FoRespond(status, error) ==
  fo' = [fo EXCEPT !.pc = "done", !.status = status, !.error = error]

\* a return before the statement is assembled
FoReturnEarly(status, error) ==
  /\ FoRespond(status, error)
  /\ UNCHANGED <<kpiVars, now>>

FoOptions ==
  /\ fo.pc = "start"
  /\ FoGate(fo) = "options"
  /\ FoReturnEarly(200, "none")

FoRejectMethod ==
  /\ fo.pc = "start"
  /\ FoGate(fo) = "method_not_allowed"
  /\ FoReturnEarly(405, "Method not allowed.")

\* JSON.parse or the destructuring throws; caught, answered 500 with err.message
FoBodyThrows ==
  /\ fo.pc = "start"
  /\ FoGate(fo) = "throws"
  /\ FoReturnEarly(500, "TypeError or SyntaxError")

FoMissing ==
  /\ fo.pc = "start"
  /\ FoGate(fo) = "missing"
  /\ FoReturnEarly(400, "Missing dimension or table")

FoInvalid ==
  /\ fo.pc = "start"
  /\ FoGate(fo) = "invalid"
  /\ FoReturnEarly(400, IF fo.rev = "first" THEN "Invalid dimension or table requested"
                        ELSE "Invalid parameters")

\* the statement is assembled and the submit fetch starts
FoSubmit ==
  /\ fo.pc = "start"
  /\ FoGate(fo) = "submit"
  /\ fo' = [fo EXCEPT !.sql = FoSql(fo.rev, fo.dimension, fo.table, fo.months),
                      !.submits = @ + 1, !.pc = "submit"]
  /\ UNCHANGED <<kpiVars, now>>

\* the submit fetch rejects, or submitRes.json() throws
FoSubmitThrows ==
  /\ fo.pc = "submit"
  /\ \E d \in Latencies : now' = now + d
  /\ FoRespond(500, "fetch or json failed")
  /\ UNCHANGED kpiVars

\* the submit answers with a JSON body; submitRes.ok is never looked at.
\* First revision: state = "PENDING", start = Date.now(), whatever the body
\* says.  Months revision: result = submitted.result if the body says
\* SUCCEEDED, else the handler waits.
FoSubmitReturns ==
  /\ fo.pc = "submit"
  /\ \E d \in Latencies, ok, res \in BOOLEAN, st \in {"PENDING", "SUCCEEDED", "FAILED", Undef} :
       /\ ok \/ st = Undef
       /\ res => st = "SUCCEEDED"
       /\ now' = now + d
       /\ fo' = IF fo.rev = "first"
                THEN [fo EXCEPT !.submitOk = ok, !.state = "PENDING", !.result = FALSE,
                                !.start = now', !.pc = "loop"]
                ELSE IF st = "SUCCEEDED"
                THEN [fo EXCEPT !.submitOk = ok, !.state = st, !.result = res, !.pc = "finish"]
                ELSE [fo EXCEPT !.submitOk = ok, !.state = st, !.pc = "wait"]
  /\ UNCHANGED kpiVars

\* while (state !== "SUCCEEDED" && state !== "FAILED" && Date.now() - start < 10000)
FoLoopGoesOn ==
  /\ fo.state # "SUCCEEDED"
  /\ fo.state # "FAILED"
  /\ now - fo.start < FoTimeoutMs

FoLoopSleep ==
  /\ fo.pc = "loop"
  /\ FoLoopGoesOn
  /\ fo' = [fo EXCEPT !.pc = "sleep"]
  /\ UNCHANGED <<kpiVars, now>>

\* the sleep is over (200 ms in the loop, 2000 ms in the months revision);
\* the status fetch starts
FoPoll ==
  /\ fo.pc \in {"sleep", "wait"}
  /\ now' = now + (IF fo.pc = "sleep" THEN FoSleepMs ELSE FoWaitMs)
  /\ fo' = [fo EXCEPT !.polls = @ + 1, !.pc = "poll"]
  /\ UNCHANGED kpiVars

\* the status fetch answers.  First revision: state = json.status.state; if
\* SUCCEEDED, result = json.result.  Months revision: result = json.result.
FoPollReturns ==
  /\ fo.pc = "poll"
  /\ \E d \in Latencies, st \in RemoteStates, res \in BOOLEAN :
       /\ res => st = "SUCCEEDED"
       /\ now' = now + d
       /\ fo' = IF fo.rev = "first"
                THEN [fo EXCEPT !.state = st, !.result = res, !.pc = "loop"]
                ELSE [fo EXCEPT !.state = st, !.result = res, !.pc = "finish"]
  /\ UNCHANGED kpiVars

\* the status fetch rejects, json() throws, or (first revision) the body has no status
FoPollThrows ==
  /\ fo.pc = "poll"
  /\ \E d \in Latencies : now' = now + d
  /\ FoRespond(500, "fetch or json failed")
  /\ UNCHANGED kpiVars

\* if (!result) throw; else 200 with the options
FoFinish ==
  /\ \/ fo.pc = "loop" /\ ~FoLoopGoesOn
     \/ fo.pc = "finish"
  /\ IF fo.result THEN FoRespond(200, "none")
     ELSE FoRespond(500, IF fo.rev = "first" THEN "Query timed out"
                         ELSE "Query pending... refresh to retry")
  /\ UNCHANGED <<kpiVars, now>>

\* requests of the filter-options handler
FoMonthChars == {"1", "'"}
RECURSIVE FoStringsUpTo(_)
FoStringsUpTo(n) ==
  IF n = 0 THEN {<<>>}
  ELSE LET shorter == FoStringsUpTo(n - 1)
       IN  shorter \cup {Append(m, c) : m \in shorter, c \in FoMonthChars}
FoMonthLists ==
  {NoList} \cup {List(l) : l \in ListsUpTo(FoStringsUpTo(MaxValLen), MaxListLen)}

FoRequests ==
  {[FoIdle EXCEPT !.rev = rev, !.method = m, !.raw = raw, !.pc = "start"] :
     rev \in {"first", "months"}, m \in {"OPTIONS", "GET", "POST"},
     raw \in {"undef", "str_bad", "str_null"}}
  \cup {[FoIdle EXCEPT !.rev = rev, !.method = "POST", !.raw = "obj", !.pc = "start",
                       !.dimension = dim, !.table = tbl] :
          rev \in {"first", "months"},
          dim \in {Undef, "wslr_nbr", "megabrand", "label FROM t; --"},
          tbl \in {Undef, "mbmc_actuals_volume", "secrets"}}
  \cup {[FoIdle EXCEPT !.rev = "months", !.method = "POST", !.raw = "obj", !.pc = "start",
                       !.dimension = "channel", !.table = "mbmc_actuals_distro",
                       !.months = l] : l \in FoMonthLists}

InitFilters ==
  /\ InitWith({}, {IdleRequest})
  /\ env = AllCredentials
  /\ fo \in FoRequests

NextFilters ==
  \/ FoOptions
  \/ FoRejectMethod
  \/ FoBodyThrows
  \/ FoMissing
  \/ FoInvalid
  \/ FoSubmit
  \/ FoSubmitThrows
  \/ FoSubmitReturns
  \/ FoLoopSleep
  \/ FoPoll
  \/ FoPollReturns
  \/ FoPollThrows
  \/ FoFinish

SpecFilters == InitFilters /\ [][NextFilters]_vars

(* ================================================================ claims *)
\* the fields the handler of r works with, after parsing and defaults
FieldsOf(r) == WithDefaults(ParseBody(req[r].raw, req[r].fields).fields)

\* r got as far as assembling a statement
Compiled(r) == pc[r] \notin {"idle", "start"} /\ submits[r] > 0

\* reading a statement as SQL does: the tokens that stand outside every
\* string literal (a quote opens or closes a literal; '' inside one is a
\* quote character and leaves the reader inside)
RECURSIVE OutsideLiterals(_, _)
OutsideLiterals(text, inLiteral) ==
  IF text = <<>> THEN <<>>
  ELSE IF Head(text) = "'" THEN OutsideLiterals(Tail(text), ~inLiteral)
  ELSE (IF inLiteral THEN <<>> ELSE <<Head(text)>>) \o OutsideLiterals(Tail(text), inLiteral)

IsCallerChar(t) == t \in CallerChars
QuoteCount(text) == Len(SelectSeq(text, LAMBDA t : t = "'"))

\* a 6-digit year-month token
IsYearMonth(val) ==
  val.t \in {"str", "num"} /\ Len(val.v) = 6 /\ \A i \in 1..Len(val.v) : val.v[i] \in Digits

\* C1: in every assembled statement, caller-supplied characters stand inside
\* properly closed string literals only; the one exception are the digits of a
\* max_month that is a 6-digit token.  In particular a max_month that is not
\* such a token never stands unquoted in the WHERE clause.
C1_CallerTextAllowlistedOrQuoted ==
  \A r \in ReqIds :
    Compiled(r) =>
      LET raw == SelectSeq(OutsideLiterals(finalSql[r], FALSE), IsCallerChar)
      IN  /\ QuoteCount(finalSql[r]) % 2 = 0
          /\ raw # <<>> =>
               /\ IsYearMonth(MaxMonthOrDefault(FieldsOf(r).max_month))
               /\ \A i \in 1..Len(raw) : raw[i] \in Digits

\* a POST with an object body that is no ping, on a server with credentials
KpiQuery(r) ==
  /\ req[r].method = "POST"
  /\ ParseBody(req[r].raw, req[r].fields).isObj
  /\ ParseBody(req[r].raw, req[r].fields).fields.ping # "true"
  /\ CredentialsSet(env)

\* C2: a KPI query whose kpi is none of the registered keys (missing,
\* "Volume", "constructor", ...) is answered 400, and no submit or poll call
\* is ever made for it.
C2_UnregisteredKpiRejected ==
  \A r \in ReqIds :
    KpiQuery(r) /\ FieldsOf(r).kpi \notin RegisteredKpis /\ pc[r] # "start" =>
      /\ resp[r].status = 400
      /\ submits[r] = 0
      /\ polls[r] = 0

\* C3: after an accepted submit the poll loop ends and the handler responds,
\* whatever the poll responses are: no status fetch is started once the clock
\* has reached the deadline, the number of polls never exceeds the timeout
\* divided by the sleep interval (rounded up), and the request reaches its
\* response.
C3_PollLoopTerminates ==
  /\ [](\A r \in ReqIds : polls[r] > 0 => (polls[r] - 1) * SleepMs < TimeoutMs)
  /\ [][\A r \in ReqIds :
          pc[r] = "loop" /\ now >= deadlineMs[r] => pc'[r] # "sleep" /\ polls'[r] = polls[r]]_vars
  /\ \A r \in ReqIds : (pc[r] = "loop") ~> (pc[r] = "done" /\ sent[r] = 1)

\* C3 witness: every poll answered RUNNING, the deadline ended the loop after
\* the largest number of polls, and the handler responded
C3_Witness ==
  /\ pc[1] = "done"
  /\ polls[1] * SleepMs >= TimeoutMs
  /\ now >= deadlineMs[1]
  /\ last[1].state = "RUNNING"
  /\ resp[1].status = 502

\* C4: whenever the submit response is not 2xx, whatever its body, the
\* handler responds with the remote status and the generated SQL, and polls
\* nothing.
C4_RejectedSubmitMirrored ==
  \A r \in ReqIds :
    pc[r] = "done" /\ submitRes[r].status # 0 /\ ~submitRes[r].ok =>
      /\ resp[r].status = submitRes[r].status
      /\ resp[r].sql = finalSql[r]
      /\ resp[r].sql # NoSql
      /\ polls[r] = 0

\* C5: a result response (200, ok, result) is sent only when the last status
\* observed from the remote service is SUCCEEDED; with the last state PENDING,
\* RUNNING, FAILED, CANCELED or absent no result is returned.
C5_ResultOnlyFromSucceeded ==
  \A r \in ReqIds :
    /\ resp[r].kind = "result" \/ resp[r].result # "none" =>
         /\ last[r].state = "SUCCEEDED"
         /\ resp[r].status = 200
         /\ resp[r].ok = "true"
    /\ pc[r] = "done" /\ statementId[r] # Undef /\ last[r].state # "SUCCEEDED" =>
         /\ resp[r].result = "none"
         /\ resp[r].status # 200

\* C5 witness: a result returned after polling
C5_Witness ==
  /\ resp[1].kind = "result"
  /\ resp[1].result = "present"
  /\ polls[1] > 1

\* the handler left the poll loop and responded with the last state not terminal
TimedOut(r) ==
  /\ pc[r] = "done"
  /\ statementId[r] # Undef
  /\ resp[r].kind # "Internal Server Error"
  /\ last[r].state \notin TerminalStates

\* the handler left the poll loop on FAILED or CANCELED
ExecutionFailed(r) ==
  /\ pc[r] = "done"
  /\ statementId[r] # Undef
  /\ resp[r].kind # "Internal Server Error"
  /\ last[r].state \in {"FAILED", "CANCELED"}

C7_SucceededWithoutResultIsFault ==
  \A r \in ReqIds :
    pc[r] = "done" /\ statementId[r] # Undef /\ last[r].state = "SUCCEEDED" /\ ~last[r].result =>
      /\ resp[r].status = 500
      /\ resp[r].status # 200

\* C8: the handler sends exactly one response for every request, whatever the
\* remote service does: never two, eventually one, and no remote call is
\* started once the response is sent.
C8_ExactlyOneResponse ==
  /\ [](\A r \in ReqIds : sent[r] <= 1 /\ (sent[r] = 1 <=> pc[r] = "done"))
  /\ [][\A r \in ReqIds :
          sent[r] >= 1 => submits'[r] = submits[r] /\ polls'[r] = polls[r]]_vars
  /\ \A r \in ReqIds : (pc[r] = "start") ~> (sent[r] = 1)

\* C8 witness: the one response of a request whose status fetch threw
C8_Witness ==
  /\ sent[1] = 1
  /\ polls[1] > 0
  /\ resp[1].kind = "Internal Server Error"

\* C9: a POST whose body is unparseable, null or absent, or lacks kpi, is
\* answered 400 {ok:false} with no remote call.
C9_InvalidBodyIsClientError ==
  \A r \in ReqIds :
    /\ req[r].method = "POST"
    /\ CredentialsSet(env)
    /\ \/ req[r].raw \in {"str_bad", "str_null", "undef"}
       \/ KpiQuery(r) /\ FieldsOf(r).kpi = Undef
    /\ pc[r] # "start"
    => /\ resp[r].status = 400
       /\ resp[r].ok = "false"
       /\ submits[r] = 0

\* C10: one request makes at most one submit call; none follows a rejected
\* submit, a failed execution, a timeout or a thrown error.
C10_AtMostOneSubmit ==
  \A r \in ReqIds :
    /\ submits[r] <= 1
    /\ pc[r] \in {"submit", "loop", "sleep", "poll"} => submits[r] = 1
    /\ submitRes[r] # NoSubmitRes \/ statementId[r] # Undef => submits[r] = 1

\* C10 witness: a request that submitted once and ended in a rejected submit
C10_Witness ==
  /\ pc[1] = "done"
  /\ submits[1] = 1
  /\ resp[1].kind = "Databricks submit failed"

\* C11: the poll protocol is ordered.  No status fetch precedes the accepted
\* submit; a status fetch starts only from the sleep that followed a loop
\* check with the last-known state not terminal and the clock before the
\* deadline, and one sleep interval passes before it; each status response
\* replaces the last-known status; after a terminal state no status fetch
\* starts.
C11_PollProtocolOrdered ==
  /\ [](\A r \in ReqIds :
          polls[r] > 0 => submits[r] = 1 /\ submitRes[r] = AcceptedRes /\ statementId[r] # Undef)
  /\ [][\A r \in ReqIds :
          /\ polls'[r] # polls[r] =>
               /\ polls'[r] = polls[r] + 1
               /\ pc[r] = "sleep"
               /\ last[r].state \notin {"SUCCEEDED", "FAILED", "CANCELED"}
               /\ now < deadlineMs[r]
               /\ now' = now + SleepMs
          /\ pc[r] = "poll" /\ pc'[r] = "loop" => last'[r] = pollRes'[r]
          /\ last[r].state \in {"SUCCEEDED", "FAILED", "CANCELED"} =>
               polls'[r] = polls[r] /\ last'[r] = last[r]]_vars

\* C11 witness: a second status response, CANCELED, has replaced a RUNNING one
C11_Witness ==
  /\ pc[1] = "loop"
  /\ polls[1] = 2
  /\ last[1].state = "CANCELED"
  /\ last[1] = pollRes[1]

\* C12: when a 2xx submit response already carries a terminal state, the
\* handler makes no status fetch and answers from the submit response: 200
\* with its result if the state is SUCCEEDED, 502 with the state if it is
\* FAILED or CANCELED, whether or not the response carries a statement_id.
C12_TerminalSubmitAnsweredDirectly ==
  \A r \in ReqIds :
    (/\ sent[r] > 0
     /\ submitRes[r] = AcceptedRes
     /\ submitted[r].state \in {"SUCCEEDED", "FAILED", "CANCELED"}) =>
      /\ polls[r] = 0
      /\ submitted[r].state = "SUCCEEDED" =>
           /\ resp[r].status = 200
           /\ resp[r].ok = "true"
           /\ resp[r].result = IF submitted[r].result THEN "present" ELSE "absent"
      /\ submitted[r].state # "SUCCEEDED" =>
           /\ resp[r].status = 502
           /\ resp[r].ok = "false"
           /\ resp[r].state = submitted[r].state

\* C13: when the accepted job is observed in FAILED or CANCELED, the handler
\* does nothing more than respond 502 with ok false, the state field equal to
\* that state (the one of the most recent status response) and no result.
C13_FailedOrCanceledSurfaced ==
  /\ [](\A r \in ReqIds :
          statementId[r] # Undef /\ last[r].state \in {"FAILED", "CANCELED"} =>
            /\ pc[r] \in {"loop", "done"}
            /\ polls[r] > 0 => last[r] = pollRes[r]
            /\ pc[r] = "done" =>
                 /\ resp[r].status = 502
                 /\ resp[r].ok = "false"
                 /\ resp[r].state = last[r].state
                 /\ resp[r].result = "none"
                 /\ sent[r] = 1)
  /\ [][\A r \in ReqIds :
          /\ statementId[r] # Undef
          /\ last[r].state \in {"FAILED", "CANCELED"}
          /\ pc[r] = "loop"
          /\ pc'[r] # "loop"
          => pc'[r] = "done" /\ polls'[r] = polls[r] /\ last'[r] = last[r]]_vars

\* C13 witness: accepted as PENDING, polled twice, CANCELED, answered 502
C13_Witness ==
  /\ pc[1] = "done"
  /\ submitted[1].state = "PENDING"
  /\ polls[1] = 2
  /\ last[1].state = "CANCELED"
  /\ resp[1].status = 502
  /\ resp[1].state = "CANCELED"

\* C14: a POST whose body has ping exactly true is answered 200 {ok: true,
\* mode: "ping"} with no remote call, whatever else the body holds and whether
\* or not the credentials are set.
C14_PingAnsweredLocally ==
  \A r \in ReqIds :
    (/\ req[r].method = "POST"
     /\ ParseBody(req[r].raw, req[r].fields).isObj
     /\ ParseBody(req[r].raw, req[r].fields).fields.ping = "true"
     /\ pc[r] # "start") =>
      /\ pc[r] = "done"
      /\ resp[r] = PingReply
      /\ resp[r].status = 200 /\ resp[r].ok = "true" /\ resp[r].kind = "ping"
      /\ sent[r] = 1
      /\ submits[r] = 0 /\ polls[r] = 0

\* C14 witness: a ping answered with a credential missing and a kpi that is
\* no registered key
C14_Witness ==
  /\ resp[1] = PingReply
  /\ ~CredentialsSet(env)
  /\ FieldsOf(1).kpi = "Volume"

\* the text between WHERE and the end of its line
IndexOf(text, t) ==
  CHOOSE i \in 1..Len(text) : text[i] = t /\ \A j \in 1..(i - 1) : text[j] # t
WhereClause(text) ==
  LET rest == SubSeq(text, IndexOf(text, "WHERE ") + 1, Len(text))
  IN  SubSeq(rest, 1, IndexOf(rest, "\n") - 1)

StartsWith(text, prefix) ==
  Len(text) >= Len(prefix) /\ SubSeq(text, 1, Len(prefix)) = prefix

IsTimeScopeHead(t) == t \in {"cal_yr_mo_nbr = ", "cal_yr_mo_nbr BETWEEN "}

\* max_month as the statement prints it, and its first four characters
PrintedMonth(r) == TemplateText(MaxMonthOrDefault(FieldsOf(r).max_month))
FirstFour(text) == [i \in 1..(IF Len(text) < 4 THEN Len(text) ELSE 4) |-> text[i]]

\* C15: every compiled statement has exactly one time-scope predicate, the
\* first after 1=1, and it is given by scope and max_month alone: for MTD
\* `cal_yr_mo_nbr = <max_month>`, for YTD (the default) `cal_yr_mo_nbr
\* BETWEEN <first four of max_month>01 AND <max_month>`.
C15_TimeScopeFromScopeAndMonth ==
  \A r \in ReqIds :
    Compiled(r) =>
      LET where == WhereClause(finalSql[r])
          expected ==
            IF FieldsOf(r).scope = "MTD"
            THEN <<"cal_yr_mo_nbr = ">> \o PrintedMonth(r)
            ELSE <<"cal_yr_mo_nbr BETWEEN ">> \o FirstFour(PrintedMonth(r)) \o <<"01", " AND ">>
                   \o PrintedMonth(r)
          prefix == <<"1=1", " AND ">> \o expected
      IN  /\ Len(SelectSeq(finalSql[r], IsTimeScopeHead)) = 1
          /\ FieldsOf(r).scope \in {"MTD", "YTD"} =>
               /\ StartsWith(where, prefix)
               /\ Len(where) > Len(prefix) => where[Len(prefix) + 1] = " AND "

\* C15 witness: YTD over 202503 compiles to BETWEEN 202501 AND 202503
C15_Witness ==
  /\ Compiled(1)
  /\ FieldsOf(1).scope = "YTD"
  /\ FieldsOf(1).max_month = Str(Month202503)
  /\ WhereClause(finalSql[1]) =
       <<"1=1", " AND ", "cal_yr_mo_nbr BETWEEN ", "2", "0", "2", "5", "01", " AND ",
         "2", "0", "2", "5", "0", "3", " AND ", "megabrand != 'AO'">>

AoExclusion == "megabrand != 'AO'"

\* C16: the compiled statement has the predicate megabrand != 'AO' if and only
\* if filters.include_ao is not exactly the boolean true: no filters, no flag,
\* false, the string "true" and 1 all exclude; true never does.
C16_AoExcludedUnlessExactlyTrue ==
  \A r \in ReqIds :
    Compiled(r) =>
      LET f == FieldsOf(r).filters
          exactlyTrue == f.kind = "obj" /\ f.include_ao = "true"
          n == Len(SelectSeq(WhereClause(finalSql[r]), LAMBDA t : t = AoExclusion))
      IN  /\ exactlyTrue => n = 0
          /\ ~exactlyTrue => n = 1
          /\ Len(SelectSeq(finalSql[r], LAMBDA t : t = AoExclusion)) = n

\* C16 witness: the string "true" still excludes, next to a megabrand filter
C16_Witness ==
  /\ Compiled(1)
  /\ FieldsOf(1).filters.include_ao = "'true'"
  /\ FieldsOf(1).filters.megabrand.def
  /\ \E i \in 1..Len(finalSql[1]) : finalSql[1][i] = AoExclusion

EndsWith(text, suffix) ==
  Len(text) >= Len(suffix)
    /\ SubSeq(text, Len(text) - Len(suffix) + 1, Len(text)) = suffix

HasToken(text, t) == \E i \in 1..Len(text) : text[i] = t

\* the text between SELECT and the first aggregate
SelectClause(text) ==
  LET rest == SubSeq(text, IndexOf(text, "SELECT ") + 1, Len(text))
  IN  SubSeq(rest, 1, IndexOf(rest, ", ") - 1)

\* the filter list x of the request, as the handler sees it
FilterList(r, x) ==
  LET f == FieldsOf(r).filters
  IN  CASE x = "megabrand" -> f.megabrand
        [] x = "region" -> f.region
        [] x = "state" -> f.state
        [] x = "wholesaler_id" -> f.wholesaler_id
        [] OTHER -> f.channel
HasValues(list) == list.def /\ Len(list.vals) > 0

\* C17: revenue is the one KPI without a channel.  For it a channel filter
\* with values adds 1=0 and no predicate on the channel column, and groupBy =
\* channel selects the literal 'All Channels' with no GROUP BY.  For every
\* other KPI the filter adds channel IN (...) and groupBy = channel groups by
\* channel.
C17_ChannelFallsBackWithoutChannel ==
  /\ \A k \in RegisteredKpis : KPI_MAP[k].hasChannel <=> k # "revenue"
  /\ \A r \in ReqIds :
       Compiled(r) /\ FieldsOf(r).kpi \in RegisteredKpis =>
         LET text == finalSql[r]
             where == WhereClause(text)
             list == FilterList(r, "channel")
             byChannel == FieldsOf(r).groupBy = "channel"
         IN  IF KPI_MAP[FieldsOf(r).kpi].hasChannel
             THEN /\ HasValues(list) =>
                       /\ EndsWith(where, <<" AND ", "channel", " IN (">>
                                            \o QuotedList(list.vals) \o <<")">>)
                       /\ ~HasToken(where, "1=0")
                  /\ byChannel =>
                       /\ SelectClause(text) = <<"channel", " as dimension">>
                       /\ \E i \in 1..(Len(text) - 1) :
                            text[i] = "GROUP BY " /\ text[i + 1] = "channel"
             ELSE /\ HasValues(list) =>
                       /\ EndsWith(where, <<" AND ", "1=0">>)
                       /\ ~HasToken(where, "channel")
                  /\ byChannel =>
                       /\ SelectClause(text) = <<"'All Channels'", " as dimension">>
                       /\ ~HasToken(text, "GROUP BY ")
                       /\ ~HasToken(text, "channel")

\* C17 witness: revenue by channel with a channel filter
C17_Witness ==
  /\ Compiled(1)
  /\ FieldsOf(1).kpi = "revenue"
  /\ FieldsOf(1).groupBy = "channel"
  /\ HasValues(FilterList(1, "channel"))
  /\ HasToken(WhereClause(finalSql[1]), "1=0")
  /\ HasToken(finalSql[1], "'All Channels'")

\* where a predicate stands in the fixed order, by its first token
PredicateRank(t) ==
  CASE IsTimeScopeHead(t) -> 1
    [] t = AoExclusion -> 2
    [] t = "megabrand" -> 3
    [] t = "sls_regn_cd" -> 4
    [] t = "mktng_st_cd" -> 5
    [] t = "wslr_nbr" -> 6
    [] t \in {"channel", "1=0"} -> 7
    [] OTHER -> 0
PredicateHeads(where) == SelectSeq(where, LAMBDA t : PredicateRank(t) > 0)

\* the WHERE clause has `col IN (...)` over the quoted values of the list,
\* joined to what precedes it by AND
HasInPredicate(where, col, list) ==
  \E i \in 2..Len(where) :
    LET predicate == <<col, " IN (">> \o QuotedList(list.vals) \o <<")">>
    IN  /\ where[i - 1] = " AND "
        /\ i + Len(predicate) - 1 <= Len(where)
        /\ SubSeq(where, i, i + Len(predicate) - 1) = predicate
        /\ i + Len(predicate) <= Len(where) => where[i + Len(predicate)] = " AND "

RECURSIVE ReadBody(_)
ReadBody(text) ==
  IF text = <<>> THEN [value |-> <<>>, rest |-> <<>>, closed |-> FALSE]
  ELSE IF Head(text) = "'"
       THEN IF Len(text) >= 2 /\ text[2] = "'"
            THEN LET more == ReadBody(SubSeq(text, 3, Len(text)))
                 IN  [more EXCEPT !.value = <<"'">> \o @]
            ELSE [value |-> <<>>, rest |-> Tail(text), closed |-> TRUE]
       ELSE LET more == ReadBody(Tail(text))
            IN  [more EXCEPT !.value = <<Head(text)>> \o @]

ReadLiteral(text) ==
  IF text # <<>> /\ Head(text) = "'" THEN ReadBody(Tail(text))
  ELSE [value |-> <<>>, rest |-> text, closed |-> FALSE]

\* a comma-separated list of literals
RECURSIVE ReadList(_)
ReadList(text) ==
  LET one == ReadLiteral(text)
  IN  IF one.closed /\ one.rest # <<>> /\ Head(one.rest) = ","
      THEN LET more == ReadList(Tail(one.rest))
           IN  [values |-> <<one.value>> \o more.values, rest |-> more.rest,
                closed |-> more.closed]
      ELSE [values |-> <<one.value>>, rest |-> one.rest, closed |-> one.closed]

DoubledQuotes(value) == Len(SelectSeq(value, LAMBDA c : c = "'"))

\* C19: escaping round-trips.  The literal of a filter value is the value in
\* single quotes with every quote of the value doubled; read back under the
\* SQL quoting rule it yields the value and ends with the literal's last
\* character; and the IN list of the compiled statement reads back as the
\* list of values of the request, up to the closing parenthesis.
C19_EscapingRoundTrips ==
  \A r \in ReqIds :
    Compiled(r) /\ HasValues(FilterList(r, "megabrand")) =>
      LET vals == FilterList(r, "megabrand").vals
          where == WhereClause(finalSql[r])
          list == SubSeq(where, IndexOf(where, "megabrand") + 2, Len(where))
          read == ReadList(list)
      IN  /\ \A i \in 1..Len(vals) :
               LET literal == QuoteValue(vals[i])
               IN  /\ Len(literal) = Len(vals[i]) + DoubledQuotes(vals[i]) + 2
                   /\ literal[1] = "'" /\ literal[Len(literal)] = "'"
                   /\ ReadLiteral(literal) = [value |-> vals[i], rest |-> <<>>, closed |-> TRUE]
          /\ where[IndexOf(where, "megabrand") + 1] = " IN ("
          /\ read.closed
          /\ read.values = vals
          /\ read.rest # <<>> /\ Head(read.rest) = ")"

\* C19 witness: the values '' and a' in one compiled list
C19_Witness ==
  /\ Compiled(1)
  /\ FilterList(1, "megabrand") = List(<< <<"'", "'">>, <<"a", "'">> >>)
  /\ ReadList(SubSeq(WhereClause(finalSql[1]), IndexOf(WhereClause(finalSql[1]), "megabrand") + 2,
                     Len(WhereClause(finalSql[1])))).values
       = << <<"'", "'">>, <<"a", "'">> >>

\* the k-th line break of a statement, and the lines of GROUP BY and ORDER BY
LineBreak(text, k) ==
  CHOOSE i \in 1..Len(text) :
    text[i] = "\n" /\ Cardinality({j \in 1..i : text[j] = "\n"}) = k
GroupByClause(text) == SubSeq(text, LineBreak(text, 2) + 1, LineBreak(text, 3) - 1)
OrderByClause(text) == SubSeq(text, LineBreak(text, 3) + 1, LineBreak(text, 4) - 1)

IsLiteral(expr) == expr \in {"'Total'", "'All Channels'"}

\* C20: groupBy selects one dimension expression, GROUP BY and ORDER BY:
\* time (the default) cal_yr_mo_nbr, grouped, ascending; megabrand, region and
\* state their column, grouped, ORDER BY val_cy DESC; wholesaler the
\* geography column of the KPI (KAM for adshare, WSLR_NBR otherwise), grouped,
\* descending; total the literal 'Total' with no GROUP BY and no ORDER BY.
\* GROUP BY is there exactly when the dimension is a column, not a literal.
C20_GroupingTriple ==
  \A r \in ReqIds :
    Compiled(r) =>
      LET text == finalSql[r]
          select == SelectClause(text)
          by == FieldsOf(r).groupBy
          kpi == FieldsOf(r).kpi
          Grouped(col, order) ==
            /\ select = <<col, " as dimension">>
            /\ GroupByClause(text) = <<"GROUP BY ", col>>
            /\ OrderByClause(text) = <<order>>
      IN  /\ by = "time" => Grouped("cal_yr_mo_nbr", "ORDER BY cal_yr_mo_nbr ASC")
          /\ by = "megabrand" => Grouped("megabrand", "ORDER BY val_cy DESC")
          /\ by = "region" => Grouped("sls_regn_cd", "ORDER BY val_cy DESC")
          /\ by = "state" => Grouped("mktng_st_cd", "ORDER BY val_cy DESC")
          /\ by = "wholesaler" /\ kpi \in RegisteredKpis =>
               Grouped(IF kpi = "adshare" THEN "KAM" ELSE "WSLR_NBR", "ORDER BY val_cy DESC")
          /\ by = "total" =>
               /\ select = <<"'Total'", " as dimension">>
               /\ GroupByClause(text) = <<>>
               /\ OrderByClause(text) = <<>>
          /\ Len(select) = 2 /\ select[2] = " as dimension"
          /\ IsLiteral(select[1]) <=> GroupByClause(text) = <<>>
          /\ ~IsLiteral(select[1]) => GroupByClause(text) = <<"GROUP BY ", select[1]>>

\* C20 witness: adshare by wholesaler groups by KAM
C20_Witness ==
  /\ Compiled(1)
  /\ FieldsOf(1).kpi = "adshare"
  /\ FieldsOf(1).groupBy = "wholesaler"
  /\ GroupByClause(finalSql[1]) = <<"GROUP BY ", "KAM">>
  /\ OrderByClause(finalSql[1]) = <<"ORDER BY val_cy DESC">>

\* the aggregation the registry is said to hold for each KPI
ClaimedAgg(kpi) == IF kpi \in {"share", "adshare", "avd"} THEN "AVG" ELSE "SUM"

\* C21: for every registered KPI, whatever the grouping, scope and filters,
\* the statement selects the dimension and the descriptor's aggregation (SUM
\* for volume, revenue, displays, pods, taps; AVG for share, adshare, avd) of
\* <col>_CY and <col>_LY from the KPI's table and no other, and ends with
\* LIMIT 1000.
C21_StatementReadsKpiDataset ==
  \A r \in ReqIds :
    Compiled(r) /\ FieldsOf(r).kpi \in RegisteredKpis =>
      LET text == finalSql[r]
          cfg == KPI_MAP[FieldsOf(r).kpi]
          agg == ClaimedAgg(FieldsOf(r).kpi)
          head == <<"SELECT ">> \o SelectClause(text)
                    \o <<", ", agg, "(", cfg.col, "_CY", ") as val_cy, ">>
                    \o <<agg, "(", cfg.col, "_LY", ") as val_ly ">>
                    \o <<"FROM ", "commercial_dev.capabilities.", cfg.table, "\n", "WHERE ">>
      IN  /\ cfg.agg = agg
          /\ StartsWith(text, head)
          /\ Len(SelectSeq(text, LAMBDA t : t = "FROM ")) = 1
          /\ \A k \in RegisteredKpis :
               HasToken(text, KPI_MAP[k].table) => KPI_MAP[k].table = cfg.table
          /\ EndsWith(text, <<"\n", "LIMIT 1000">>)
          /\ Len(SelectSeq(text, LAMBDA t : t = "LIMIT 1000")) = 1

\* C21 witness: share by total, MTD 202501, averages with the 'Total' literal
C21_Witness ==
  /\ Compiled(1)
  /\ FieldsOf(1).kpi = "share"
  /\ finalSql[1] =
       <<"SELECT ", "'Total'", " as dimension", ", ",
         "AVG", "(", KPI_MAP["share"].col, "_CY", ") as val_cy, ",
         "AVG", "(", KPI_MAP["share"].col, "_LY", ") as val_ly ",
         "FROM ", "commercial_dev.capabilities.", KPI_MAP["share"].table,
         "\n", "WHERE ", "1=1", " AND ", "cal_yr_mo_nbr = ", "2", "0", "2", "5", "0", "1",
         " AND ", "megabrand != 'AO'", "\n", "\n", "\n", "LIMIT 1000">>

\* the request supplies nothing but kpi
OnlyKpi(r) ==
  /\ ParseBody(req[r].raw, req[r].fields).isObj
  /\ ParseBody(req[r].raw, req[r].fields).fields
       = [EmptyFields EXCEPT !.kpi = FieldsOf(r).kpi]

\* C22: omitted fields take the defaults groupBy = time, scope = YTD,
\* max_month = "202512", so a request with only a registered kpi compiles to
\* the monthly statement over 202501..202512 with the segment exclusion; and a
\* KPI query whose groupBy or scope is outside its enum, or that has a field
\* set to null, is never answered as an internal fault (500).
C22_DefaultsAndNoInternalFault ==
  \A r \in ReqIds :
    /\ Compiled(r) /\ OnlyKpi(r) /\ FieldsOf(r).kpi \in RegisteredKpis =>
         /\ WhereClause(finalSql[r]) =
              <<"1=1", " AND ", "cal_yr_mo_nbr BETWEEN ", "2", "0", "2", "5", "01", " AND ",
                "2", "0", "2", "5", "1", "2", " AND ", "megabrand != 'AO'">>
         /\ SelectClause(finalSql[r]) = <<"cal_yr_mo_nbr", " as dimension">>
         /\ GroupByClause(finalSql[r]) = <<"GROUP BY ", "cal_yr_mo_nbr">>
         /\ OrderByClause(finalSql[r]) = <<"ORDER BY cal_yr_mo_nbr ASC">>
    /\ (/\ KpiQuery(r)
        /\ FieldsOf(r).max_month.t \in {"undef", "null", "str"}
        /\ pc[r] = "done"
        /\ submits[r] = 0) =>
         /\ resp[r].status # 500
         /\ resp[r].status = 400

\* everything the handler of r holds: its request, its position, its locals,
\* its response and its calls
Job(r) ==
  <<req[r], pc[r], finalSql[r], submitRes[r], submitted[r], statementId[r], deadlineMs[r],
    last[r], pollRes[r], resp[r], sent[r], submits[r], polls[r]>>

\* the response of the synchronous part, by how far it gets
GateResponse(r) ==
  LET outcome == Gate(req[r], env)
  IN  CASE outcome = "options" -> Preflight
        [] outcome = "get" -> Operational
        [] outcome = "method_not_allowed" -> MethodNotAllowed
        [] outcome = "ping" -> PingReply
        [] outcome = "missing_credentials" -> MissingCredentials
        [] outcome = "kpi_not_configured" -> KpiNotConfigured
        [] OTHER -> InternalError

\* the response r gets, run alone, from what the remote service answered to r
ResponseAlone(r) ==
  IF submits[r] = 0 THEN {GateResponse(r)}
  ELSE IF statementId[r] = Undef
  THEN IF submitRes[r] = NoSubmitRes \/ submitRes[r].ok THEN {InternalError}
       ELSE {InternalError, SubmitFailed(submitRes[r].status, CompiledSql(req[r]))}
  ELSE {InternalError,
        IF last[r].state = "SUCCEEDED" THEN Success(last[r], CompiledSql(req[r]))
        ELSE TimedOutOrFailed(last[r])}

\* C23: requests handled at once are independent.  A step of one handler
\* changes nothing another handler holds (request, statement, statement id,
\* deadline, last-known status, response, calls), whatever the interleaving;
\* and the response of each is the one it gets run alone from its own request
\* and the answers the remote service gave to it.
C23_RequestsIndependent ==
  /\ [](\A r \in ReqIds :
          /\ pc[r] = "done" => resp[r] \in ResponseAlone(r)
          /\ submits[r] > 0 => finalSql[r] = CompiledSql(req[r])
          /\ statementId[r] # Undef => statementId[r] = StatementIdOf(r))
  /\ [][\A r, q \in ReqIds : Job(r)' # Job(r) /\ q # r => Job(q)' = Job(q)]_vars

\* C23 witness: two requests for the same KPI, their polls interleaved, one
\* answered with the result and one with a timeout past its own deadline
C23_Witness ==
  /\ pc[1] = "done" /\ pc[2] = "done"
  /\ polls[1] = 1 /\ polls[2] = 1
  /\ deadlineMs[1] # deadlineMs[2]
  /\ resp[1].kind = "result"
  /\ resp[2].status = 502 /\ resp[2].state = "RUNNING"
  /\ now >= deadlineMs[2]

\* the filter-options handler is past its preflight and method checks
FoHandled ==
  /\ fo.pc \notin {"idle", "start"}
  /\ fo.method # "OPTIONS"
  /\ fo.rev = "months" => fo.method = "POST"

\* dimension and table as the handler reads them from the body
FoAllowlisted ==
  /\ fo.raw = "obj"
  /\ fo.dimension \in ALLOWED_COLS(fo.rev)
  /\ fo.table \in ALLOWED_TABLES

\* the months entries made of digits only, in their order
DigitMonths ==
  SelectSeq(fo.months.vals, LAMBDA m : m # <<>> /\ \A i \in 1..Len(m) : m[i] \in Digits)

\* C24: in the filter-options handlers every caller-supplied token in the
\* statement is constrained.  A request whose dimension and table are not both
\* in their allowlists is answered 400 and no remote call is made; a
\* statement is assembled from allowlisted names only; and the month predicate
\* lists exactly the months entries that consist of digits, the others being
\* dropped, with no predicate at all when none is left.
C24_FilterOptionsTokensConstrained ==
  /\ FoHandled /\ ~FoAllowlisted =>
       /\ fo.pc = "done"
       /\ fo.status = 400
       /\ fo.submits = 0 /\ fo.polls = 0
  /\ fo.submits > 0 =>
       /\ FoAllowlisted
       /\ \A i \in 1..Len(fo.sql) :
            \/ fo.sql[i] \in ALLOWED_COLS(fo.rev) \cup ALLOWED_TABLES
            \/ fo.sql[i] \in Digits \cup {"'", ",", ")"}
            \/ fo.sql[i] \in {"SELECT DISTINCT ", " as label ", " WHERE ", " IS NOT NULL ",
                              "FROM commercial_dev.capabilities.", "ORDER BY ", " ASC ",
                              "LIMIT 2000", "AND month IN (", " ORDER BY label ASC "}
       /\ IF DigitMonths = <<>> THEN ~HasToken(fo.sql, "AND month IN (")
          ELSE LET list == SubSeq(fo.sql, IndexOf(fo.sql, "AND month IN (") + 1, Len(fo.sql))
                   read == ReadList(list)
               IN  /\ read.closed
                   /\ read.values = DigitMonths
                   /\ read.rest # <<>> /\ Head(read.rest) = ")"

\* C25: the poll loop of the filter-options handler stops at the first
\* terminal state: once a status response reports SUCCEEDED, FAILED or
\* CANCELED the handler neither sleeps for nor starts another status fetch,
\* and it does neither when the submit was rejected.
C25_FilterOptionsPollingStops ==
  fo.rev = "first" /\ fo.pc \in {"sleep", "poll"} =>
    /\ fo.submitOk
    /\ fo.polls > 0 => fo.state \notin {"SUCCEEDED", "FAILED", "CANCELED"}

\* C26: the KPI query handler contacts the remote service only for a POST
\* that is no ping, with host, token and warehouse id all set, and with a kpi
\* that resolved to a descriptor of the registry.  OPTIONS, GET and other
\* methods never do; with a credential missing a query is answered 500,
\* whatever its kpi, and never does either.
C26_RemoteCallOnlyAfterGating ==
  \A r \in ReqIds :
    /\ submits[r] > 0 \/ polls[r] > 0 =>
         /\ req[r].method = "POST"
         /\ ParseBody(req[r].raw, req[r].fields).isObj
         /\ FieldsOf(r).ping # "true"
         /\ CredentialsSet(env)
         /\ FieldsOf(r).kpi \in RegisteredKpis
    /\ (/\ pc[r] = "done"
        /\ req[r].method = "POST"
        /\ ~ParseBody(req[r].raw, req[r].fields).throws
        /\ FieldsOf(r).ping # "true"
        /\ ~CredentialsSet(env)) =>
         /\ resp[r] = MissingCredentials
         /\ resp[r].status = 500
         /\ submits[r] = 0 /\ polls[r] = 0

\* C27: a 2xx submit response without statement_id is answered 500 with no
\* status fetch, also when it reports SUCCEEDED and carries a result.
C27_NoStatementIdIsFault ==
  \A r \in ReqIds :
    (/\ submitRes[r] = AcceptedRes
     /\ submitted[r].statement_id = Undef
     /\ pc[r] # "submit") =>
      /\ pc[r] = "done"
      /\ resp[r] = InternalError
      /\ resp[r].status = 500 /\ resp[r].result = "none"
      /\ sent[r] = 1
      /\ polls[r] = 0
      /\ statementId[r] = Undef

\* C27 witness: SUCCEEDED with a result but no statement_id, answered 500
C27_Witness ==
  /\ submitRes[1] = AcceptedRes
  /\ submitted[1] = RemoteBody("SUCCEEDED", TRUE, Undef)
  /\ resp[1].status = 500
  /\ polls[1] = 0

\* C28: a status response that carries no status.state is not terminal.  It
\* replaces the last-known status; from the loop check that follows, the
\* handler sleeps and polls again while the clock is before the deadline, and
\* once the deadline is reached it answers 502 with the state of that most
\* recent response, which is absent, not an earlier known state.
C28_StatelessPollIsNonTerminal ==
  /\ [](\A r \in ReqIds :
          pc[r] = "loop" /\ polls[r] > 0 /\ pollRes[r].state = Undef =>
            /\ last[r] = pollRes[r]
            /\ last[r].state = Undef
            /\ now < deadlineMs[r] => LoopGoesOn(r))
  /\ [][\A r \in ReqIds :
          /\ (pc[r] = "poll" /\ pc'[r] = "loop" /\ pollRes'[r].state = Undef) =>
               last'[r].state = Undef /\ polls'[r] = polls[r]
          /\ (/\ pc[r] = "loop" /\ polls[r] > 0 /\ pollRes[r].state = Undef
              /\ pc'[r] # "loop") =>
               IF now < deadlineMs[r]
               THEN pc'[r] = "sleep" /\ sent'[r] = 0
               ELSE /\ pc'[r] = "done"
                    /\ resp'[r].status = 502
                    /\ resp'[r].kind = "Query timed out or failed"
                    /\ resp'[r].state = Undef]_vars

\* C28 witness: accepted as PENDING, the last of several status responses has
\* no state, and the deadline is answered 502 with no state
C28_Witness ==
  /\ pc[1] = "done"
  /\ submitted[1].state = "PENDING"
  /\ polls[1] >= 2
  /\ pollRes[1].state = Undef
  /\ now >= deadlineMs[1]
  /\ resp[1].status = 502
  /\ resp[1].state = Undef

====
